---- MODULE Spec2Model ----
(***************************************************************************)
(* Address-Book-System: the CSV-backed AddressBook and the                  *)
(* AddressBookSystem registry of src/address_book_system.py.                *)
(*                                                                          *)
(* Text is modelled as a sequence of one-character strings, so that        *)
(* str.lower(), the csv writer's quoting and the csv reader's parsing are   *)
(* computed character by character.  A file is the sequence of its lines   *)
(* (the records the csv writer terminates with "\r\n").  Field values are   *)
(* single-line text, which is what input() delivers.                        *)
(***************************************************************************)
EXTENDS Integers, Sequences, FiniteSets, TLC

\* ---------------------------------------------------------------- bounds
MaxRows == 3       \* contact rows one file may hold
MaxOps == 5        \* calls made on the registry and its books

\* ------------------------------------------------------------------ text
UpperChars ==
  <<"A","B","C","D","E","F","G","H","I","J","K","L","M",
    "N","O","P","Q","R","S","T","U","V","W","X","Y","Z">>

LowerChars ==
  <<"a","b","c","d","e","f","g","h","i","j","k","l","m",
    "n","o","p","q","r","s","t","u","v","w","x","y","z">>

\* the lower-case letter of every upper-case letter
LowerOf ==
  [ch \in {UpperChars[i] : i \in 1..26} |->
     LowerChars[CHOOSE i \in 1..26 : UpperChars[i] = ch]]

CharLower(ch) == IF ch \in DOMAIN LowerOf THEN LowerOf[ch] ELSE ch

\* str.lower()
lower(s) == [i \in 1..Len(s) |-> CharLower(s[i])]

\* F applied to the value of v, which is evaluated once
Bind(v, F(_)) == CHOOSE r \in { F(x) : x \in {v} } : TRUE

\* the printable ASCII characters in code-point order, from 32 (space);
\* "grave" holds the place of the grave accent (96)
Ascii ==
  <<" ","!","\"","#","$","%","&","'","(",")","*","+",",","-",".","/",
    "0","1","2","3","4","5","6","7","8","9",":",";","<","=",">","?",
    "@","A","B","C","D","E","F","G","H","I","J","K","L","M","N","O",
    "P","Q","R","S","T","U","V","W","X","Y","Z","[","\\","]","^","_",
    "grave","a","b","c","d","e","f","g","h","i","j","k","l","m","n","o",
    "p","q","r","s","t","u","v","w","x","y","z","{","|","}","~">>

OrdOf == [ch \in {Ascii[i] : i \in 1..Len(Ascii)} |->
            31 + (CHOOSE i \in 1..Len(Ascii) : Ascii[i] = ch)]

\* ord(ch)
Ord(ch) == OrdOf[ch]

\* a < b on str: lexicographic by code point, a proper prefix is smaller
StrLess(a, b) ==
  \E k \in 1..(Len(a) + 1) :
     /\ \A j \in 1..(k - 1) : j <= Len(b) /\ a[j] = b[j]
     /\ k <= Len(b)
     /\ (k > Len(a) \/ Ord(a[k]) < Ord(b[k]))

\* a < b on tuples of str of the same length (the sort keys)
RECURSIVE KeyLess(_, _)
KeyLess(a, b) ==
  IF a = <<>> \/ b = <<>> THEN FALSE
  ELSE IF StrLess(Head(a), Head(b)) THEN TRUE
  ELSE IF Head(a) = Head(b) THEN KeyLess(Tail(a), Tail(b))
  ELSE FALSE

\* list.sort(key=...): a stable sort; entries are [key, item] records.
\* An entry goes after every entry already placed whose key is not greater.
\* a sort that places an entry before the entries of equal key
SortInsertBeforeEqual(sorted, e) ==
  LET n == Cardinality({i \in 1..Len(sorted) : KeyLess(sorted[i].key, e.key)})
  IN SubSeq(sorted, 1, n) \o <<e>> \o SubSeq(sorted, n + 1, Len(sorted))

SortInsert(sorted, e) ==
  LET n == Cardinality({i \in 1..Len(sorted) : ~KeyLess(e.key, sorted[i].key)})
  IN SubSeq(sorted, 1, n) \o <<e>> \o SubSeq(sorted, n + 1, Len(sorted))

RECURSIVE SortLoop(_, _)
SortLoop(entries, sorted) ==
  IF entries = <<>> THEN sorted
  ELSE Bind(Head(entries), LAMBDA e :
         Bind(SortInsert(sorted, e), LAMBDA s : SortLoop(Tail(entries), s)))

\* the items of sorted entries
Items(sorted) == [i \in 1..Len(sorted) |-> sorted[i].item]

list_sort(entries) ==
  Bind(entries, LAMBDA es : Bind(SortLoop(es, <<>>), Items))

\* ------------------------------------------------------------------- csv
\* csv.writer, QUOTE_MINIMAL: a field is quoted when it holds the delimiter,
\* the quote character or a line-terminator character.
NeedsQuote(f) == \E i \in 1..Len(f) : f[i] \in {",", "\"", "\r", "\n"}

RECURSIVE DoubleQuotes(_)
DoubleQuotes(f) ==
  IF f = <<>> THEN <<>>
  ELSE (IF Head(f) = "\"" THEN <<"\"", "\"">> ELSE <<Head(f)>>)
       \o DoubleQuotes(Tail(f))

QuoteField(f) ==
  IF NeedsQuote(f) THEN <<"\"">> \o DoubleQuotes(f) \o <<"\"">> ELSE f

RECURSIVE JoinFields(_)
JoinFields(row) ==
  IF row = <<>> THEN <<>>
  ELSE IF Len(row) = 1 THEN QuoteField(row[1])
  ELSE QuoteField(Head(row)) \o <<",">> \o JoinFields(Tail(row))

\* csv.reader on one line: the parser's states are
\*   "start" (start of a field), "plain" (in an unquoted field),
\*   "quoted" (in a quoted field), "quote" (a quote seen in a quoted field).
\* cur holds the characters of the field read inside quotes, from is the
\* index where the unquoted part of the field being read began.
RECURSIVE ParseFrom(_, _, _, _, _, _)
ParseFrom(line, i, st, from, cur, fields) ==
  IF i > Len(line)
  THEN Append(fields, IF st = "plain" THEN cur \o SubSeq(line, from, Len(line)) ELSE cur)
  ELSE LET ch == line[i] IN
    CASE st = "start" ->
           IF ch = "\"" THEN ParseFrom(line, i + 1, "quoted", i, <<>>, fields)
           ELSE IF ch = "," THEN ParseFrom(line, i + 1, "start", i, <<>>, Append(fields, <<>>))
           ELSE ParseFrom(line, i + 1, "plain", i, <<>>, fields)
      [] st = "plain" ->
           IF ch = ","
           THEN ParseFrom(line, i + 1, "start", i, <<>>,
                          Append(fields, cur \o SubSeq(line, from, i - 1)))
           ELSE ParseFrom(line, i + 1, "plain", from, cur, fields)
      [] st = "quoted" ->
           IF ch = "\"" THEN ParseFrom(line, i + 1, "quote", i, cur, fields)
           ELSE ParseFrom(line, i + 1, "quoted", i, Append(cur, ch), fields)
      [] OTHER ->
           IF ch = "\"" THEN ParseFrom(line, i + 1, "quoted", i, Append(cur, ch), fields)
           ELSE IF ch = "," THEN ParseFrom(line, i + 1, "start", i, <<>>, Append(fields, cur))
           ELSE ParseFrom(line, i + 1, "plain", i, cur, fields)

ParseRecord(line) == IF line = <<>> THEN <<>> ELSE ParseFrom(line, 1, "start", 1, <<>>, <<>>)

\* --------------------------------------------------------------- Contact
Contact(first_name, last_name, address, city, state, zip_code, phone, email) ==
  [first_name |-> first_name, last_name |-> last_name, address |-> address,
   city |-> city, state |-> state, zip_code |-> zip_code,
   phone |-> phone, email |-> email]

to_list(c) ==
  <<c.first_name, c.last_name, c.address, c.city, c.state, c.zip_code, c.phone, c.email>>

from_list(contact_list) ==
  Contact(contact_list[1], contact_list[2], contact_list[3], contact_list[4],
          contact_list[5], contact_list[6], contact_list[7], contact_list[8])

\* -------------------------------------------------------------- inputs
Ann == <<"A","n","n">>
ann == <<"a","n","n">>
Bob == <<"B","o","b">>
Lee == <<"L","e","e">>
LEE == <<"L","E","E">>
Ray == <<"R","a","y">>
Reno == <<"R","e","n","o">>
RENO == <<"R","E","N","O">>
Paris == <<"P","a","r","i","s">>
NV == <<"N","V">>
nv == <<"n","v">>
CA == <<"C","A">>
Elm == <<"1"," ","E","l","m">>
Oak == <<"2",",","\"","B","\"">>
Mail == <<"e","@","x">>

BookNames == {<<"A">>, <<"B">>}

ContactPool ==
  { Contact(Ann, Lee, Elm, Reno, NV, <<"1">>, <<"2">>, Mail),
    Contact(ann, LEE, Oak, RENO, nv, <<"9">>, <<"8">>, <<>>),
    Contact(Bob, Lee, Elm, Paris, NV, <<"1">>, <<"2">>, Mail),
    Contact(Ann, Ray, Elm, Paris, CA, <<"1">>, <<"2">>, Mail) }

\* the names a caller looks up: those of the pool
Names == { <<c.first_name, c.last_name>> : c \in ContactPool }

Header ==
  << <<"F","i","r","s","t"," ","N","a","m","e">>,
     <<"L","a","s","t"," ","N","a","m","e">>,
     <<"A","d","d","r","e","s","s">>,
     <<"C","i","t","y">>,
     <<"S","t","a","t","e">>,
     <<"Z","i","p"," ","C","o","d","e">>,
     <<"P","h","o","n","e">>,
     <<"E","m","a","i","l">> >>

\* ------------------------------------------------------- csv front end
\* The rows the program writes are the header and the rows of the pool's
\* contacts; what the writer and the reader compute on them is evaluated
\* once and looked up afterwards.
KnownRows == {Header} \cup {to_list(c) : c \in ContactPool}
WriteTable == [row \in KnownRows |-> JoinFields(row)]
KnownLines == {WriteTable[row] : row \in KnownRows}
ReadTable == [line \in KnownLines |-> ParseRecord(line)]

\* writer.writerow(row): the line written, without its "\r\n" terminator
writerow(row) == IF row \in KnownRows THEN WriteTable[row] ELSE JoinFields(row)

\* next(reader): the row one line parses to
ParseLine(line) == IF line \in KnownLines THEN ReadTable[line] ELSE ParseRecord(line)

\* list(csv.reader(file)): every line of the file parsed into a row
reader(lines) == [i \in 1..Len(lines) |-> ParseLine(lines[i])]

\* writer.writerows(rows)
writerows(rows) == [i \in 1..Len(rows) |-> writerow(rows[i])]

\* ----------------------------------------------------------------- state
VARIABLES
  files,          \* the file system: file name -> the lines of the file
  address_books,  \* AddressBookSystem.address_books, in dict (insertion) order
  last,           \* the last call made: its arguments and what it returned
  ops             \* number of calls made

vars == <<files, address_books, last, ops>>

\* f"{name}.csv"
FileNameOf(name) == name \o <<".","c","s","v">>

\* os.path.exists
exists(file_name) == file_name \in DOMAIN files

\* name in self.address_books
Registered(name) == \E i \in 1..Len(address_books) : address_books[i].name = name

\* self.address_books.get(name): the book in a one-element sequence, or None
None == <<>>
get_address_book(name) ==
  IF Registered(name)
  THEN <<address_books[CHOOSE i \in 1..Len(address_books) : address_books[i].name = name].book>>
  ELSE None

\* a call: its arguments, what it returned (or reported), the number of
\* contact rows its book held when it was made, and what find_contact_by_name
\* returned for its name arguments when it was made
Call(op, name, first, lastn, row, result, before, found) ==
  [op |-> op, name |-> name, first |-> first, last |-> lastn, row |-> row,
   result |-> result, before |-> before, found |-> found]

\* ----------------------------------------------------------- AddressBook
\* the rows csv.reader yields after next(reader) skipped the header
DataRows(book) == Tail(reader(files[book.file_name]))

NameMatches(contact, first_name, last_name) ==
  /\ lower(contact.first_name) = lower(first_name)
  /\ lower(contact.last_name) = lower(last_name)

RECURSIVE FindLoop(_, _, _)
FindLoop(rows, first_name, last_name) ==
  IF rows = <<>> THEN None
  ELSE IF NameMatches(from_list(Head(rows)), first_name, last_name)
       THEN <<from_list(Head(rows))>>
       ELSE FindLoop(Tail(rows), first_name, last_name)

find_contact_by_name(book, first_name, last_name) ==
  Bind(DataRows(book), LAMBDA rows : FindLoop(rows, first_name, last_name))

\* AddressBook.__init__ writing the header without looking for the file
AddressBookInitTruncates(file_name) ==
  [fn \in DOMAIN files \cup {file_name} |->
     IF fn = file_name THEN <<writerow(Header)>> ELSE files[fn]]

\* AddressBook.__init__: the lines of the file once the book is constructed
AddressBook_init(file_name) ==
  IF exists(file_name) THEN files
  ELSE files @@ (file_name :> <<writerow(Header)>>)

AddressBook(file_name) == [file_name |-> file_name]

\* open(file_name, 'w') and writer.writerows(contacts)
WriteFile(file_name, rows) ==
  [files EXCEPT ![file_name] = writerows(rows)]

\* remove_contact dropping the first matching row only
RECURSIVE RemoveLoopFirstOnly(_, _, _, _, _)
RemoveLoopFirstOnly(rows, first_name, last_name, contacts, removed) ==
  IF rows = <<>> THEN [contacts |-> contacts, removed |-> removed]
  ELSE IF ~removed /\ NameMatches(from_list(Head(rows)), first_name, last_name)
       THEN RemoveLoopFirstOnly(Tail(rows), first_name, last_name, contacts, TRUE)
       ELSE RemoveLoopFirstOnly(Tail(rows), first_name, last_name,
                                Append(contacts, Head(rows)), removed)

\* the loop of remove_contact: the rows kept, and whether one was dropped
RECURSIVE RemoveLoop(_, _, _, _, _)
RemoveLoop(rows, first_name, last_name, contacts, removed) ==
  IF rows = <<>> THEN [contacts |-> contacts, removed |-> removed]
  ELSE IF NameMatches(from_list(Head(rows)), first_name, last_name)
       THEN RemoveLoop(Tail(rows), first_name, last_name, contacts, TRUE)
       ELSE RemoveLoop(Tail(rows), first_name, last_name, Append(contacts, Head(rows)), removed)

\* update_contact adding the new row when no row matched
RECURSIVE UpdateLoopUpserts(_, _, _, _, _, _)
UpdateLoopUpserts(rows, first_name, last_name, new_contact, contacts, updated) ==
  IF rows = <<>>
  THEN [contacts |-> IF updated THEN contacts ELSE Append(contacts, to_list(new_contact)),
        updated |-> updated]
  ELSE IF NameMatches(from_list(Head(rows)), first_name, last_name)
       THEN UpdateLoopUpserts(Tail(rows), first_name, last_name, new_contact,
                              Append(contacts, to_list(new_contact)), TRUE)
       ELSE UpdateLoopUpserts(Tail(rows), first_name, last_name, new_contact,
                              Append(contacts, Head(rows)), updated)

\* update_contact writing the new row without dropping the row it replaces
RECURSIVE UpdateLoopKeepsOld(_, _, _, _, _, _)
UpdateLoopKeepsOld(rows, first_name, last_name, new_contact, contacts, updated) ==
  IF rows = <<>> THEN [contacts |-> contacts, updated |-> updated]
  ELSE IF NameMatches(from_list(Head(rows)), first_name, last_name)
       THEN UpdateLoopKeepsOld(Tail(rows), first_name, last_name, new_contact,
                               contacts \o <<Head(rows), to_list(new_contact)>>, TRUE)
       ELSE UpdateLoopKeepsOld(Tail(rows), first_name, last_name, new_contact,
                               Append(contacts, Head(rows)), updated)

\* the loop of update_contact: the rows written back, and whether one was replaced
RECURSIVE UpdateLoop(_, _, _, _, _, _)
UpdateLoop(rows, first_name, last_name, new_contact, contacts, updated) ==
  IF rows = <<>> THEN [contacts |-> contacts, updated |-> updated]
  ELSE IF NameMatches(from_list(Head(rows)), first_name, last_name)
       THEN UpdateLoop(Tail(rows), first_name, last_name, new_contact,
                       Append(contacts, to_list(new_contact)), TRUE)
       ELSE UpdateLoop(Tail(rows), first_name, last_name, new_contact,
                       Append(contacts, Head(rows)), updated)

\* search_by_city comparing the city as typed
RECURSIVE SearchCityLoopExactCase(_, _, _)
SearchCityLoopExactCase(rows, city, results) ==
  IF rows = <<>> THEN results
  ELSE IF from_list(Head(rows)).city = city
       THEN SearchCityLoopExactCase(Tail(rows), city, Append(results, from_list(Head(rows))))
       ELSE SearchCityLoopExactCase(Tail(rows), city, results)

RECURSIVE SearchCityLoop(_, _, _)
SearchCityLoop(rows, city, results) ==
  IF rows = <<>> THEN results
  ELSE IF lower(from_list(Head(rows)).city) = lower(city)
       THEN SearchCityLoop(Tail(rows), city, Append(results, from_list(Head(rows))))
       ELSE SearchCityLoop(Tail(rows), city, results)

search_by_city(book, city) ==
  Bind(DataRows(book), LAMBDA rows : SearchCityLoop(rows, city, <<>>))

RECURSIVE SearchStateLoop(_, _, _)
SearchStateLoop(rows, state, results) ==
  IF rows = <<>> THEN results
  ELSE IF lower(from_list(Head(rows)).state) = lower(state)
       THEN SearchStateLoop(Tail(rows), state, Append(results, from_list(Head(rows))))
       ELSE SearchStateLoop(Tail(rows), state, results)

search_by_state(book, state) ==
  Bind(DataRows(book), LAMBDA rows : SearchStateLoop(rows, state, <<>>))

\* getattr(x, key).lower() for the keys the menus use
SortKey(contact, key) ==
  IF key = "first_name" THEN <<lower(contact.first_name)>>
  ELSE IF key = "last_name" THEN <<lower(contact.last_name)>>
  ELSE IF key = "state" THEN <<lower(contact.state)>>
  ELSE <<lower(contact.city)>>

\* the entries contacts.sort(key=lambda x: getattr(x, key).lower()) orders
KeyedBy(contacts, key) ==
  [i \in 1..Len(contacts) |-> [key |-> SortKey(contacts[i], key), item |-> contacts[i]]]

\* [contact.to_list() for contact in contacts]
ToLists(contacts) == [i \in 1..Len(contacts) |-> to_list(contacts[i])]

\* [Contact.from_list(row) for row in reader]
FromLists(rows) == [i \in 1..Len(rows) |-> from_list(rows[i])]

\* sort_contacts(key): the header row, then the rows of the sorted contacts
sort_contacts(book, key) ==
  Bind(reader(files[book.file_name]), LAMBDA rows :
    Bind(FromLists(Tail(rows)), LAMBDA contacts :
      <<Head(rows)>> \o Bind(list_sort(KeyedBy(contacts, key)), ToLists)))

\* ----------------------------------------------------- AddressBookSystem
\* self.address_books.values(), in dict order
Books == [i \in 1..Len(address_books) |-> address_books[i].book]

\* the contacts AddressBookSystem.search_by_city prints, in the order printed
RECURSIVE SystemSearchCityLoop(_, _)
SystemSearchCityLoop(books, city) ==
  IF books = <<>> THEN <<>>
  ELSE search_by_city(Head(books), city) \o SystemSearchCityLoop(Tail(books), city)

System_search_by_city(city) == SystemSearchCityLoop(Books, city)

RECURSIVE SystemSearchStateLoop(_, _)
SystemSearchStateLoop(books, state) ==
  IF books = <<>> THEN <<>>
  ELSE search_by_state(Head(books), state) \o SystemSearchStateLoop(Tail(books), state)

System_search_by_state(state) == SystemSearchStateLoop(Books, state)

\* count_by_city assigning the count of each book instead of adding it
RECURSIVE CountCityLoopAssigns(_, _, _)
CountCityLoopAssigns(books, city, count) ==
  IF books = <<>> THEN count
  ELSE CountCityLoopAssigns(Tail(books), city, Len(search_by_city(Head(books), city)))

\* the count AddressBookSystem.count_by_city prints
RECURSIVE CountCityLoop(_, _, _)
CountCityLoop(books, city, count) ==
  IF books = <<>> THEN count
  ELSE CountCityLoop(Tail(books), city, count + Len(search_by_city(Head(books), city)))

count_by_city(city) == CountCityLoop(Books, city, 0)

RECURSIVE CountStateLoop(_, _, _)
CountStateLoop(books, state, count) ==
  IF books = <<>> THEN count
  ELSE CountStateLoop(Tail(books), state, count + Len(search_by_state(Head(books), state)))

count_by_state(state) == CountStateLoop(Books, state, 0)

\* the loop of sort_by_name and sort_by_city: every book's contacts, appended
RECURSIVE AllContactsLoop(_, _)
AllContactsLoop(books, all_contacts) ==
  IF books = <<>> THEN all_contacts
  ELSE AllContactsLoop(Tail(books),
         all_contacts \o Bind(DataRows(Head(books)), FromLists))

\* the entries all_contacts.sort(key=lambda x: (x.first_name.lower(), x.last_name.lower())) orders
KeyedByName(contacts) ==
  [i \in 1..Len(contacts) |->
     [key |-> <<lower(contacts[i].first_name), lower(contacts[i].last_name)>>,
      item |-> contacts[i]]]

\* the contacts sort_by_name prints, in the order printed
SortByName(books) ==
  Bind(AllContactsLoop(books, <<>>), LAMBDA all_contacts :
    list_sort(KeyedByName(all_contacts)))

sort_by_name == SortByName(Books)

\* the contacts sort_by_city prints, in the order printed
SortByCity(books) ==
  Bind(AllContactsLoop(books, <<>>), LAMBDA all_contacts :
    list_sort(KeyedBy(all_contacts, "city")))

sort_by_city == SortByCity(Books)

\* --------------------------------------------------------------- actions
Init ==
  /\ files = << >>
  /\ address_books = << >>
  /\ last = Call("init", <<>>, <<>>, <<>>, <<>>, TRUE, 0, <<>>)
  /\ ops = 0

\* AddressBookSystem.__init__ of a new run of the program, after a run that
\* registered books: the registry starts empty, the files are still on disk
System_init ==
  /\ ops < MaxOps
  /\ address_books # << >>
  /\ address_books' = << >>
  /\ last' = Call("init", <<>>, <<>>, <<>>, <<>>, TRUE, 0, <<>>)
  /\ ops' = ops + 1
  /\ UNCHANGED files

create_address_book(name) ==
  /\ ops < MaxOps
  /\ IF Registered(name)
     THEN /\ UNCHANGED <<files, address_books>>
          /\ last' = Call("create_address_book", name, <<>>, <<>>, <<>>, FALSE, 0, <<>>)
     ELSE /\ files' = AddressBook_init(FileNameOf(name))
          /\ address_books' =
               Append(address_books, [name |-> name, book |-> AddressBook(FileNameOf(name))])
          /\ last' = Call("create_address_book", name, <<>>, <<>>, <<>>, TRUE, 0, <<>>)
  /\ ops' = ops + 1

\* delete_address_book forgetting the book without removing its file
DeleteKeepsFile(name) ==
  /\ ops < MaxOps
  /\ IF Registered(name)
     THEN /\ address_books' = SelectSeq(address_books, LAMBDA e : e.name # name)
          /\ last' = Call("delete_address_book", name, <<>>, <<>>, <<>>, TRUE,
                          Len(DataRows(get_address_book(name)[1])), <<>>)
     ELSE /\ UNCHANGED address_books
          /\ last' = Call("delete_address_book", name, <<>>, <<>>, <<>>, FALSE, 0, <<>>)
  /\ ops' = ops + 1
  /\ UNCHANGED files

delete_address_book(name) ==
  /\ ops < MaxOps
  /\ IF Registered(name)
     THEN /\ files' = [fn \in DOMAIN files \ {get_address_book(name)[1].file_name} |-> files[fn]]
          /\ address_books' = SelectSeq(address_books, LAMBDA e : e.name # name)
          /\ last' = Call("delete_address_book", name, <<>>, <<>>, <<>>, TRUE,
                          Len(DataRows(get_address_book(name)[1])), <<>>)
     ELSE /\ UNCHANGED <<files, address_books>>
          /\ last' = Call("delete_address_book", name, <<>>, <<>>, <<>>, FALSE, 0, <<>>)
  /\ ops' = ops + 1

add_contact(name, contact) ==
  /\ ops < MaxOps
  /\ Registered(name)
  /\ LET book == get_address_book(name)[1] IN
       /\ Len(files[book.file_name]) - 1 < MaxRows
       /\ files' = [files EXCEPT ![book.file_name] = Append(@, writerow(to_list(contact)))]
  /\ last' = Call("add_contact", name, <<>>, <<>>, to_list(contact), TRUE,
                  Len(DataRows(get_address_book(name)[1])), <<>>)
  /\ ops' = ops + 1
  /\ UNCHANGED address_books

remove_contact(name, first_name, last_name) ==
  /\ ops < MaxOps
  /\ Registered(name)
  /\ LET book == get_address_book(name)[1]
         rows == reader(files[book.file_name])
         loop == RemoveLoop(Tail(rows), first_name, last_name, <<Head(rows)>>, FALSE)
     IN /\ files' = WriteFile(book.file_name, loop.contacts)
        /\ last' = Call("remove_contact", name, first_name, last_name, <<>>, loop.removed,
                        Len(rows) - 1, find_contact_by_name(book, first_name, last_name))
  /\ ops' = ops + 1
  /\ UNCHANGED address_books

update_contact(name, first_name, last_name, new_contact) ==
  /\ ops < MaxOps
  /\ Registered(name)
  /\ LET book == get_address_book(name)[1]
         rows == reader(files[book.file_name])
         loop == UpdateLoop(Tail(rows), first_name, last_name, new_contact, <<Head(rows)>>, FALSE)
     IN /\ files' = WriteFile(book.file_name, loop.contacts)
        /\ last' = Call("update_contact", name, first_name, last_name,
                        to_list(new_contact), loop.updated, Len(rows) - 1,
                        find_contact_by_name(book, first_name, last_name))
  /\ ops' = ops + 1
  /\ UNCHANGED address_books

\* the keys sort_contacts is called with
SortKeys == {"first_name", "city"}

\* a call of AddressBook.sort_contacts(key) on a registered book: it opens the
\* file for reading only and returns the sorted rows (recorded in last.row,
\* the key in last.first). A call that writes nothing is not counted in ops.
call_sort_contacts(name, key) ==
  /\ Registered(name)
  /\ last' = Call("sort_contacts", name, <<key>>, <<>>,
                  sort_contacts(get_address_book(name)[1], key), TRUE,
                  Len(DataRows(get_address_book(name)[1])), <<>>)
  /\ UNCHANGED <<files, address_books, ops>>

\* menu choice 9: AddressBookSystem.sort_by_name(), the printed contacts
\* recorded in last.row
run_sort_by_name ==
  /\ last' = Call("sort_by_name", <<>>, <<>>, <<>>, ToLists(sort_by_name), TRUE, 0, <<>>)
  /\ UNCHANGED <<files, address_books, ops>>

\* menu choice 10: AddressBookSystem.sort_by_city()
run_sort_by_city ==
  /\ last' = Call("sort_by_city", <<>>, <<>>, <<>>, ToLists(sort_by_city), TRUE, 0, <<>>)
  /\ UNCHANGED <<files, address_books, ops>>

Next ==
  \/ System_init
  \/ \E name \in BookNames : create_address_book(name)
  \/ \E name \in BookNames : delete_address_book(name)
  \/ \E name \in BookNames, contact \in ContactPool : add_contact(name, contact)
  \/ \E name \in BookNames, n \in Names : remove_contact(name, n[1], n[2])
  \/ \E name \in BookNames, n \in Names, contact \in ContactPool :
       update_contact(name, n[1], n[2], contact)
  \/ \E name \in BookNames, key \in SortKeys : call_sort_contacts(name, key)
  \/ run_sort_by_name
  \/ run_sort_by_city

Spec == Init /\ [][Next]_vars

\* ------------------------------------------------------------ well-formedness
TypeOK ==
  /\ \A i \in 1..Len(address_books) : exists(address_books[i].book.file_name)
  /\ \A fn \in DOMAIN files : Len(files[fn]) >= 1 /\ ParseLine(files[fn][1]) = Header
  /\ \A fn \in DOMAIN files : \A i \in 2..Len(files[fn]) :
        from_list(ParseLine(files[fn][i])) \in ContactPool

\* ============================================================ properties
\* the book a call was made on
BookOf(name) == get_address_book(name)[1]

\* the contacts of a book, in storage order
ContactsOf(book) == Bind(DataRows(book), FromLists)

\* the contacts of every registered book, in registry order
Stored(books) == [b \in 1..Len(books) |-> ContactsOf(books[b])]

\* C1: after add_contact(c), find_contact_by_name(c.first_name, c.last_name)
\* returns a contact whose 8 fields all equal those of c.
C1_AddThenFind ==
  last.op = "add_contact" =>
    find_contact_by_name(BookOf(last.name), last.row[1], last.row[2])
      = <<from_list(last.row)>>

\* C2: no two stored contacts of one book have the same case-insensitive
\* (first_name, last_name); an add_contact whose key is already present does
\* not increase the number of stored contacts.
C2_UniqueKeys ==
  /\ \A b \in 1..Len(Books) :
       \A j, k \in 1..Len(ContactsOf(Books[b])) :
          j < k => ~NameMatches(ContactsOf(Books[b])[j],
                                ContactsOf(Books[b])[k].first_name,
                                ContactsOf(Books[b])[k].last_name)
  /\ (/\ last.op = "add_contact"
      /\ \E j \in 1..last.before :
            NameMatches(ContactsOf(BookOf(last.name))[j], last.row[1], last.row[2]))
     => Len(ContactsOf(BookOf(last.name))) <= last.before

\* C3: after a successful update_contact(f, l, new_contact) whose new name
\* differs from (f, l), find_contact_by_name(f, l) returns None and
\* find_contact_by_name(new first, new last) returns a contact equal in all
\* 8 fields to new_contact.  Names are compared as find_contact_by_name
\* compares them, without regard to case.
C3_RenameThenFind ==
  (/\ last.op = "update_contact"
   /\ last.result
   /\ ~NameMatches(from_list(last.row), last.first, last.last))
  => /\ find_contact_by_name(BookOf(last.name), last.first, last.last) = None
     /\ find_contact_by_name(BookOf(last.name), last.row[1], last.row[2])
          = <<from_list(last.row)>>

\* C4: immediately after remove_contact(f, l) returns, whatever it returns,
\* find_contact_by_name(f, l) returns None, also when several stored
\* contacts matched (f, l).
C4_RemoveThenFind ==
  last.op = "remove_contact" =>
    find_contact_by_name(BookOf(last.name), last.first, last.last) = None

\* a remove_contact that dropped two or more matching contacts, another kept
C4_Witness ==
  /\ last.op = "remove_contact"
  /\ last.result
  /\ Len(ContactsOf(BookOf(last.name))) >= 1
  /\ last.before - Len(ContactsOf(BookOf(last.name))) >= 2

\* C5: a successful update_contact(f, l, new_contact) whose new_contact keeps
\* the names (f, l) leaves the number of stored contacts unchanged, and
\* find_contact_by_name(f, l) still returns a contact.
C5_EditPreservesCount ==
  (/\ last.op = "update_contact"
   /\ last.result
   /\ NameMatches(from_list(last.row), last.first, last.last))
  => /\ Len(ContactsOf(BookOf(last.name))) = last.before
     /\ find_contact_by_name(BookOf(last.name), last.first, last.last) # None

\* an update whose new contact has the names it was called with and another
\* city than the contact found, in a book holding other contacts too
C5_Witness ==
  /\ last.op = "update_contact"
  /\ last.result
  /\ last.row[1] = last.first
  /\ last.row[2] = last.last
  /\ last.found # None
  /\ last.found[1].city # last.row[4]
  /\ last.before >= 2

\* the values the searches and counts are asked for: spellings in another
\* case than some stored one, and one no contact uses
paris == <<"p","a","r","i","s">>
Rome == <<"R","o","m","e">>
QueryCities == {RENO, paris, Rome}
QueryStates == {nv, CA, <<"T","X">>}

\* the book record of a name, registered or not
BookNamed(name) == AddressBook(FileNameOf(name))

\* C6: a remove_contact or update_contact that returns False, a
\* create_address_book on a registered name and a delete_address_book on an
\* unregistered name leave the registry and the contents (header and rows) of
\* every file exactly as they were.
C6_FailedCallChangesNothing ==
  [][ (/\ last'.op \in {"remove_contact", "update_contact",
                        "create_address_book", "delete_address_book"}
       /\ ~last'.result)
      => /\ address_books' = address_books
         /\ DOMAIN files' = DOMAIN files
         /\ \A fn \in DOMAIN files : reader(files'[fn]) = reader(files[fn]) ]_vars

\* an update_contact that found no contact in a book that holds contacts
C6_Witness ==
  /\ last.op = "update_contact"
  /\ ~last.result
  /\ last.before >= 1
  /\ Len(ContactsOf(BookOf(last.name))) = last.before

\* C7 (as stated): create_address_book on an unregistered name registers a
\* book that contains no contacts: find, search and sort on it return nothing
\* but the header, also when a file '<name>.csv' already exists.
C7_CreateGivesEmptyBook ==
  (last.op = "create_address_book" /\ last.result)
  => /\ ContactsOf(BookOf(last.name)) = <<>>
     /\ sort_contacts(BookOf(last.name), "city") = <<Header>>
     /\ \A v \in QueryCities : search_by_city(BookOf(last.name), v) = <<>>

\* C7 (amended): create_address_book on an unregistered name registers a book
\* under that name; the book contains no contacts when no file '<name>.csv'
\* exists (as after the name was created, populated and deleted), and holds
\* the contacts of that file when it exists; on a registered name it reports
\* 'already exists' and changes neither the registry nor any file.
C7_CreateOpensOrCreates ==
  [][ \A name \in BookNames :
        (last'.op = "create_address_book" /\ last'.name = name)
        => IF Registered(name)
           THEN /\ ~last'.result
                /\ address_books' = address_books
                /\ files' = files
           ELSE /\ last'.result
                /\ get_address_book(name)' = <<BookNamed(name)>>
                /\ IF exists(FileNameOf(name))
                   THEN ContactsOf(BookNamed(name))' = ContactsOf(BookNamed(name))
                   ELSE /\ ContactsOf(BookNamed(name))' = <<>>
                        /\ sort_contacts(BookNamed(name), "city")' = <<Header>>
                        /\ \A n \in Names :
                             find_contact_by_name(BookNamed(name), n[1], n[2])' = None
                        /\ \A v \in QueryCities :
                             search_by_city(BookNamed(name), v)' = <<>> ]_vars

\* a book just created over a file an earlier run left with contacts in it
C7_Witness ==
  /\ last.op = "create_address_book"
  /\ last.result
  /\ ContactsOf(BookOf(last.name)) # <<>>

\* C8: delete_address_book on a registered name: afterwards
\* get_address_book(name) is None, the file '<name>.csv' does not exist, the
\* cross-book searches, counts and sorts are those of the remaining books,
\* and the contents of every other registered book are unchanged.
C8_DeleteReleases ==
  [][ \A name \in BookNames :
        (last'.op = "delete_address_book" /\ last'.name = name /\ last'.result)
        => LET rest == SelectSeq(Books, LAMBDA b : b # BookNamed(name)) IN
           /\ get_address_book(name)' = None
           /\ ~exists(FileNameOf(name))'
           /\ Books' = rest
           /\ \A o \in BookNames \ {name} :
                Registered(o) =>
                  /\ Registered(o)'
                  /\ ContactsOf(BookNamed(o))' = ContactsOf(BookNamed(o))
           /\ \A v \in QueryCities :
                /\ System_search_by_city(v)' = SystemSearchCityLoop(rest, v)
                /\ count_by_city(v)' = CountCityLoop(rest, v, 0)
           /\ \A v \in QueryStates :
                /\ System_search_by_state(v)' = SystemSearchStateLoop(rest, v)
                /\ count_by_state(v)' = CountStateLoop(rest, v, 0)
           /\ sort_by_name' = SortByName(rest)
           /\ sort_by_city' = SortByCity(rest) ]_vars

\* a book holding contacts was deleted while another book holds contacts
C8_Witness ==
  /\ last.op = "delete_address_book"
  /\ last.result
  /\ last.before >= 1
  /\ Len(Books) >= 1
  /\ ContactsOf(Books[1]) # <<>>

\* the places <<b, i>> (book b in registry order, contact i in storage
\* order) of the stored contacts whose field equals v without regard to case
CityPlaces(stored, v) ==
  UNION { { <<b, i>> : i \in { j \in 1..Len(stored[b]) :
                                 lower(stored[b][j].city) = lower(v) } }
          : b \in 1..Len(stored) }

StatePlaces(stored, v) ==
  UNION { { <<b, i>> : i \in { j \in 1..Len(stored[b]) :
                                 lower(stored[b][j].state) = lower(v) } }
          : b \in 1..Len(stored) }

\* C9: count_by_city(v) and count_by_state(v) report the number of contacts,
\* over all registered books, whose city (state) equals v without regard to
\* case; a value no contact uses gives 0.
C9_CountIsTotal ==
  \A stored \in {Stored(Books)} :
    /\ \A v \in QueryCities : count_by_city(v) = Cardinality(CityPlaces(stored, v))
    /\ \A v \in QueryStates : count_by_state(v) = Cardinality(StatePlaces(stored, v))
    /\ count_by_city(Rome) = 0

\* one 'Paris' contact in each of two books, counted for 'paris'
C9_Witness ==
  /\ Len(Books) = 2
  /\ Len(search_by_city(Books[1], Paris)) = 1
  /\ Len(search_by_city(Books[2], Paris)) = 1
  /\ count_by_city(paris) = 2

\* the contacts at a set of places, ordered by book, then by storage position
PlaceBefore(p, q) == p[1] < q[1] \/ (p[1] = q[1] /\ p[2] < q[2])

InPlaceOrder(stored, places) ==
  [k \in 1..Cardinality(places) |->
     LET p == CHOOSE q \in places :
                Cardinality({r \in places : PlaceBefore(r, q)}) = k - 1
     IN stored[p[1]][p[2]]]

\* the contacts among stored whose city (state) is v, in place order
CityMatches(stored, v) ==
  Bind(CityPlaces(stored, v), LAMBDA places : InPlaceOrder(stored, places))

StateMatches(stored, v) ==
  Bind(StatePlaces(stored, v), LAMBDA places : InPlaceOrder(stored, places))

\* C10: search_by_city(v) and search_by_state(v) return every stored contact
\* whose city (state) equals v without regard to case, no other, each once,
\* in storage order, and a contact added is stored after those added before;
\* the registry-level search emits the per-book results in registry order,
\* and a book created is registered after those created before.
C10_SearchInOrder ==
  /\ [](\A stored \in {Stored(Books)} :
          /\ \A b \in 1..Len(Books) :
               /\ \A v \in QueryCities :
                    search_by_city(Books[b], v) = CityMatches(<<stored[b]>>, v)
               /\ \A v \in QueryStates :
                    search_by_state(Books[b], v) = StateMatches(<<stored[b]>>, v)
          /\ \A v \in QueryCities : System_search_by_city(v) = CityMatches(stored, v)
          /\ \A v \in QueryStates : System_search_by_state(v) = StateMatches(stored, v))
  /\ [][ \A name \in BookNames :
           /\ (last'.op = "add_contact" /\ last'.name = name)
              => ContactsOf(BookNamed(name))'
                   = Append(ContactsOf(BookNamed(name)), from_list(last'.row))
           /\ (last'.op = "create_address_book" /\ last'.name = name /\ last'.result)
              => Books' = Append(Books, BookNamed(name)) ]_vars

\* two books in the registry, the first returning two contacts for a city
\* spelled in another case, the second returning one
C10_Witness ==
  /\ Len(Books) = 2
  /\ Len(search_by_city(Books[1], RENO)) = 2
  /\ Len(ContactsOf(Books[1])) = 2
  /\ ContactsOf(Books[1])[1].city # ContactsOf(Books[1])[2].city
  /\ Len(search_by_city(Books[2], RENO)) = 1
  /\ Len(System_search_by_city(RENO)) = 3


\* contacts in ascending order of lowercased first_name, and those whose
\* lowercased first_name is equal in ascending order of lowercased last_name
NameOrdered(contacts) ==
  \A i \in 1..Len(contacts) : \A j \in (i + 1)..Len(contacts) :
     /\ ~StrLess(lower(contacts[j].first_name), lower(contacts[i].first_name))
     /\ lower(contacts[i].first_name) = lower(contacts[j].first_name)
          => ~StrLess(lower(contacts[j].last_name), lower(contacts[i].last_name))

\* C11: sorting by name, per book with sort_contacts('first_name') and across
\* books with sort_by_name(), returns the contacts ascending by lowercased
\* first_name and, among equal first names, ascending by lowercased last_name,
\* whatever the order they were added in.
C11_NameSortOrdered ==
  /\ (last.op = "sort_contacts" /\ last.first = <<"first_name">>)
       => NameOrdered(FromLists(Tail(last.row)))
  /\ last.op = "sort_by_name" => NameOrdered(FromLists(last.row))

\* every book's contacts, one after the other in registry order
RECURSIVE Concat(_)
Concat(seqs) == IF seqs = <<>> THEN <<>> ELSE Head(seqs) \o Concat(Tail(seqs))

\* where the contact at place i of given belongs in a stable ascending order
\* by lowercased city: after every contact of a smaller city and after the
\* earlier contacts of an equal city
CityPlace(given, i) ==
  Cardinality({j \in 1..Len(given) :
                 StrLess(lower(given[j].city), lower(given[i].city))})
  + Cardinality({j \in 1..(i - 1) : lower(given[j].city) = lower(given[i].city)})
  + 1

\* sorted holds every contact of given exactly once, ascending by lowercased
\* city, contacts of an equal city in the order they have in given
StableByCity(given, sorted) ==
  /\ Len(sorted) = Len(given)
  /\ \A i \in 1..Len(given) : \A j \in 1..Len(given) :
        i # j => CityPlace(given, i) # CityPlace(given, j)
  /\ \A i \in 1..Len(given) :
        CityPlace(given, i) \in 1..Len(sorted) /\ sorted[CityPlace(given, i)] = given[i]
  /\ \A k \in 1..Len(sorted) : \A m \in (k + 1)..Len(sorted) :
        ~StrLess(lower(sorted[m].city), lower(sorted[k].city))
  /\ \A i \in 1..Len(given) : \A j \in (i + 1)..Len(given) :
        lower(given[i].city) = lower(given[j].city)
          => CityPlace(given, i) < CityPlace(given, j)

\* what a sort by city returned is the stable sort of what is stored
CitySortIsStable ==
  /\ (last.op = "sort_contacts" /\ last.first = <<"city">>)
       => /\ Head(last.row) = Header
          /\ \A given \in {ContactsOf(BookOf(last.name))} :
               StableByCity(given, FromLists(Tail(last.row)))
  /\ last.op = "sort_by_city"
       => \A given \in {Concat(Stored(Books))} :
            StableByCity(given, FromLists(last.row))

\* C12: sort_contacts('city') returns every contact of the book exactly once,
\* ascending by lowercased city, contacts of an equal city in the order they
\* were added; sort_by_city() does the same over all registered books'
\* contacts as one sequence, ties in book-creation order then insertion
\* order; and a sort leaves the stored contents as they were.
C12_StableCitySort ==
  /\ []CitySortIsStable
  /\ [][last'.op \in {"sort_contacts", "sort_by_city", "sort_by_name"}
         => files' = files /\ address_books' = address_books]_vars

\* sort_by_city over two books: a contact of the second book goes before one
\* of the first, and two contacts of an equal city, one in each book, stay
\* in book-creation order
C12_Witness ==
  /\ last.op = "sort_by_city"
  /\ Len(Books) = 2
  /\ \A given \in {Stored(Books)} :
        /\ \E i \in 1..Len(given[1]) : \E j \in 1..Len(given[2]) :
              StrLess(lower(given[2][j].city), lower(given[1][i].city))
        /\ \E i \in 1..Len(given[1]) : \E j \in 1..Len(given[2]) :
              /\ lower(given[1][i].city) = lower(given[2][j].city)
              /\ given[1][i] # given[2][j]
              /\ \E k \in 1..Len(last.row) : \E m \in (k + 1)..Len(last.row) :
                    last.row[k] = to_list(given[1][i]) /\ last.row[m] = to_list(given[2][j])

\* the place of the first contact find_contact_by_name(first_name, last_name)
\* matches, in storage order
FirstMatch(contacts, first_name, last_name) ==
  CHOOSE i \in 1..Len(contacts) :
    /\ NameMatches(contacts[i], first_name, last_name)
    /\ \A j \in 1..(i - 1) : ~NameMatches(contacts[j], first_name, last_name)

\* C13: a successful update_contact(f, l, new_contact) replaces exactly the one
\* contact find_contact_by_name(f, l) returns, the first match in storage
\* order; every other contact of the book keeps its 8 fields and its place,
\* and every other book keeps its contents.
C13_EditChangesOnlyLocated ==
  [][ \A name \in BookNames :
        (last'.op = "update_contact" /\ last'.name = name /\ last'.result)
        => /\ address_books' = address_books
           /\ DOMAIN files' = DOMAIN files
           /\ \A fn \in DOMAIN files \ {FileNameOf(name)} :
                 reader(files'[fn]) = reader(files[fn])
           /\ \A before \in {ContactsOf(BookNamed(name))} :
              \A after \in {ContactsOf(BookNamed(name))'} :
              \A p \in {FirstMatch(before, last'.first, last'.last)} :
                 /\ last'.found = <<before[p]>>
                 /\ Len(after) = Len(before)
                 /\ after[p] = from_list(last'.row)
                 /\ \A i \in 1..Len(before) : i # p => after[i] = before[i] ]_vars

====
